---- MODULE Spec2Model ----
(***************************************************************************)
(* hyfetch: recoloring of ASCII art from a flag image.                     *)
(*                                                                         *)
(* Strings are sequences of one-character strings.  The text functions of  *)
(* neofetch_util.py (ascii_size, normalize_ascii, fill_starting) are       *)
(* operators computed as the code computes them; recolor_ascii is a state  *)
(* machine that walks the normalized template one character per step.      *)
(***************************************************************************)
EXTENDS Integers, Sequences, FiniteSets, TLC

(***************************************************************************)
(* Bounds of the model.                                                    *)
(***************************************************************************)
MaxPieces == 4
MaxOps == 2
MaxLines == 2

(***************************************************************************)
(* Characters.                                                             *)
(***************************************************************************)
NL == "\n"
SP == " "
Digits == {"0", "1", "2", "3", "4", "5", "6", "7", "8", "9"}

(***************************************************************************)
(* Python string primitives used by the code.                              *)
(***************************************************************************)
Max(a, b) == IF a >= b THEN a ELSE b

\* str.split('\n'): the pieces between newlines; never empty.
RECURSIVE SplitFrom(_, _, _)
SplitFrom(s, i, acc) ==
    IF i > Len(s) THEN <<acc>>
    ELSE IF s[i] = NL THEN <<acc>> \o SplitFrom(s, i + 1, <<>>)
    ELSE SplitFrom(s, i + 1, Append(acc, s[i]))

Split(s) == SplitFrom(s, 1, <<>>)

\* '\n'.join(lines)
RECURSIVE Join(_)
Join(lines) ==
    IF Len(lines) = 0 THEN <<>>
    ELSE IF Len(lines) = 1 THEN lines[1]
    ELSE lines[1] \o <<NL>> \o Join(Tail(lines))

\* str.ljust(w): pad on the right with spaces up to length w.
LJust(line, w) ==
    IF Len(line) >= w THEN line
    ELSE line \o [k \in 1..(w - Len(line)) |-> SP]

\* max(len(line) for line in lines)
RECURSIVE MaxLen(_)
MaxLen(lines) ==
    IF Len(lines) = 0 THEN 0
    ELSE Max(Len(Head(lines)), MaxLen(Tail(lines)))

(***************************************************************************)
(* RE_NEOFETCH_COLOR = '\${c[0-9]}' : "${c", one digit, "}".               *)
(***************************************************************************)
RE_NEOFETCH_COLOR(s, i) ==
    /\ i + 4 <= Len(s)
    /\ s[i] = "$"
    /\ s[i + 1] = "{"
    /\ s[i + 2] = "c"
    /\ s[i + 3] \in Digits
    /\ s[i + 4] = "}"

\* re.sub(RE_NEOFETCH_COLOR, '', s): one left-to-right pass over s,
\* non-overlapping matches removed.
RECURSIVE SubFrom(_, _)
SubFrom(s, i) ==
    IF i > Len(s) THEN <<>>
    ELSE IF RE_NEOFETCH_COLOR(s, i) THEN SubFrom(s, i + 5)
    ELSE <<s[i]>> \o SubFrom(s, i + 1)

ReSub(s) == SubFrom(s, 1)

\* RE_NEOFETCH_COLOR.findall(s): the matched texts, left to right.
RECURSIVE FindAllFrom(_, _)
FindAllFrom(s, i) ==
    IF i > Len(s) THEN <<>>
    ELSE IF RE_NEOFETCH_COLOR(s, i)
         THEN <<SubSeq(s, i, i + 4)>> \o FindAllFrom(s, i + 5)
    ELSE FindAllFrom(s, i + 1)

FindAll(s) == FindAllFrom(s, 1)

(***************************************************************************)
(* ascii_size, normalize_ascii, fill_starting.                             *)
(***************************************************************************)
\* (width, height): widest line once placeholders are removed, line count.
ascii_size(asc) == <<MaxLen(Split(ReSub(asc))), Len(Split(asc))>>

\* Variant: pads one column too far.
normalize_ascii_PadOneMore(asc) ==
    LET w == ascii_size(asc)[1] + 1
        lines == Split(asc)
    IN  Join([k \in 1..Len(lines) |-> LJust(lines[k], w)])

normalize_ascii(asc) ==
    LET w == ascii_size(asc)[1]
        lines == Split(asc)
    IN  Join([k \in 1..Len(lines) |-> LJust(lines[k], w)])

\* The loop of fill_starting from line k on, `last` being the placeholder
\* carried from the lines before.
RECURSIVE FillLines(_, _, _)
FillLines(lines, k, last) ==
    IF k > Len(lines) THEN <<>>
    ELSE LET line == lines[k]
             matches == FindAll(line)
             next == IF Len(matches) > 0 THEN matches[Len(matches)] ELSE last
         IN  <<last \o line>> \o FillLines(lines, k + 1, next)

\* Variant: carries the first placeholder of a line instead of the last.
RECURSIVE FillLinesFirst(_, _, _)
FillLinesFirst(lines, k, last) ==
    IF k > Len(lines) THEN <<>>
    ELSE LET line == lines[k]
             matches == FindAll(line)
             next == IF Len(matches) > 0 THEN matches[1] ELSE last
         IN  <<last \o line>> \o FillLinesFirst(lines, k + 1, next)

fill_starting_FirstMatch(asc) == Join(FillLinesFirst(Split(asc), 1, <<>>))

\* Variant: leaves a line that has a placeholder of its own untouched.
RECURSIVE FillLinesMissing(_, _, _)
FillLinesMissing(lines, k, last) ==
    IF k > Len(lines) THEN <<>>
    ELSE LET line == lines[k]
             matches == FindAll(line)
             next == IF Len(matches) > 0 THEN matches[Len(matches)] ELSE last
             new == IF Len(matches) > 0 THEN line ELSE last \o line
         IN  <<new>> \o FillLinesMissing(lines, k + 1, next)

fill_starting_OnlyMissing(asc) == Join(FillLinesMissing(Split(asc), 1, <<>>))

fill_starting(asc) == Join(FillLines(Split(asc), 1, <<>>))

(***************************************************************************)
(* Colours.  A colour is held in hue/lightness form, [h, l], with the      *)
(* lightness on the scale 0..LMax (l / LMax of full lightness).  A piece   *)
(* of output is a token [k, s, n]: a character (k = "chr", s the           *)
(* character) or an SGR escape sequence (k = "sgr", s its parameter, n the *)
(* colour it selects, 0 when it selects none).                             *)
(***************************************************************************)
LMax == 4
Min(a, b) == IF a <= b THEN a ELSE b

RGB(h, l) == [h |-> h, l |-> l]
Chr(c) == [k |-> "chr", s |-> c, n |-> 0]
Sgr(p, n) == [k |-> "sgr", s |-> p, n |-> n]
NoColor == [k |-> "none", s |-> "", n |-> 0]

\* color(msg): the markup codes of a message replaced by escape sequences,
\* raw escape sequences kept: "&l" bold, "&~" default foreground, "&*"
\* default background.
color(msg) ==
    [i \in 1..Len(msg) |->
        CASE msg[i] = "&l" -> Sgr("1", 0)
          [] msg[i] = "&~" -> Sgr("39", 0)
          [] msg[i] = "&*" -> Sgr("49", 0)
          [] msg[i] = "ESC[1m" -> Sgr("1", 0)
          [] msg[i] = "ESC[22m" -> Sgr("22", 0)]

\* RGB.set_light(light, at_least, at_most): the lightness set to `light`
\* when no bound is asked for, else kept above it (at_least) or below it
\* (at_most).  FALSE stands for None.
set_light(c, light, at_least, at_most) ==
    IF ~at_least /\ ~at_most THEN RGB(c.h, light)
    ELSE LET l1 == IF at_most THEN Min(c.l, light) ELSE c.l
             l2 == IF at_least THEN Max(l1, light) ELSE l1
         IN  RGB(c.h, l2)

\* RGB.lighten(factor): the lightness multiplied by factor / LMax, kept in
\* 0..LMax.
lighten(c, factor) == RGB(c.h, Min(LMax, (c.l * factor) \div LMax))

\* RGB.to_ansi(foreground): the sequence that selects the colour as
\* foreground or background, in the process-wide colour mode.  24-bit mode
\* names the colour exactly; 8-bit mode names the nearest palette entry,
\* which two neighbouring lightness levels share.
to_ansi(c, foreground, mode) ==
    IF mode = "rgb"
    THEN Sgr(IF foreground THEN "38;2" ELSE "48;2", 10 * c.h + c.l)
    ELSE Sgr(IF foreground THEN "38;5" ELSE "48;5", 10 * c.h + 2 * (c.l \div 2))

(***************************************************************************)
(* The flag registry and get_flag.  A flag file is a name and an image, a  *)
(* sequence of rows of colours.                                            *)
(***************************************************************************)
Files == << <<"r", ".", "p", "n", "g">>, <<"t", ".", "p", "n", "g">> >>

FileImage(index) ==
    IF index = 1
    THEN << <<RGB(0, 2)>>, <<RGB(0, 3)>>, <<RGB(1, 2)>> >>
    ELSE << <<RGB(0, 1)>>, <<RGB(1, 3)>>, <<RGB(0, 1)>> >>

\* f.split('.')[0]
RECURSIVE Stem(_)
Stem(f) ==
    IF Len(f) = 0 \/ Head(f) = "." THEN <<>>
    ELSE <<Head(f)>> \o Stem(Tail(f))

\* str.lower()
LowerChar(ch) ==
    CASE ch = "R" -> "r"
      [] ch = "T" -> "t"
      [] ch = "X" -> "x"
      [] OTHER -> ch

Lower(s) == [i \in 1..Len(s) |-> LowerChar(s[i])]

\* list.index(name): the first position, 0 for ValueError.
IndexOf(list, name) ==
    LET hits == { i \in 1..Len(list) : list[i] = name }
    IN  IF hits = {} THEN 0
        ELSE CHOOSE i \in hits : \A j \in hits : i <= j

\* [f.split('.')[0] for f in os.listdir('hyfetch/flags')]
files_no_ext(listing) == [i \in 1..Len(listing) |-> Stem(listing[i])]

\* Variant: a name that is not installed falls back to the first file.
FlagIndex_Fallback(flag) ==
    LET hits == { i \in 1..Len(Files) : Stem(Files[i]) = Lower(flag) }
    IN  IF hits = {} THEN 1
        ELSE CHOOSE i \in hits : \A j \in hits : i <= j

\* files_no_ext.index(flag.lower()): the first position, 0 for ValueError.
FlagIndex(flag) ==
    LET hits == { i \in 1..Len(Files) : Stem(Files[i]) = Lower(flag) }
    IN  IF hits = {} THEN 0
        ELSE CHOOSE i \in hits : \A j \in hits : i <= j

ImgW(img) == Len(img[1])
ImgH(img) == Len(img)

\* Image.rotate(rotation, expand=True), counterclockwise, for the multiples
\* of 90; pixel (x, y) of the result, 0-based.
RotW(img, rotation) == IF rotation \in {90, 270} THEN ImgH(img) ELSE ImgW(img)
RotH(img, rotation) == IF rotation \in {90, 270} THEN ImgW(img) ELSE ImgH(img)

RotPixel(img, rotation, x, y) ==
    CASE rotation = 0 -> img[y + 1][x + 1]
      [] rotation = 90 -> img[x + 1][ImgW(img) - y]
      [] rotation = 180 -> img[ImgH(img) - y][ImgW(img) - x]
      [] rotation = 270 -> img[ImgH(img) - x][y + 1]

\* Image.resize((x_len, y_len), NEAREST) then getpixel((x, y)): the source
\* pixel under the centre of the target pixel.
GetPixel(flag, rotation, xl, yl, x, y) ==
    LET img == FileImage(FlagIndex(flag))
        sx == ((2 * x + 1) * RotW(img, rotation)) \div (2 * xl)
        sy == ((2 * y + 1) * RotH(img, rotation)) \div (2 * yl)
    IN  RotPixel(img, rotation, sx, sy)

(***************************************************************************)
(* State.                                                                  *)
(*   asc      the template handed to the function under study              *)
(*   ops      the text functions applied so far, in call order             *)
(*   prev_str the argument of the last text function applied               *)
(*   cur_str  the value returned by the last text function applied         *)
(*   size     the last value returned by ascii_size                        *)
(* and for a call of recolor_ascii:                                        *)
(*   pc       "idle" | "call" | "loop" | "done" | "error"                  *)
(*   flag, lightness, lightness_mode, foreground, rotation, term           *)
(*            the other arguments                                          *)
(*   color_mode   the process-wide colour mode (GLOBAL_CFG.color_mode)     *)
(*   norm     the local asc after line 125                                 *)
(*   pos      the position in norm the for loop has reached (1-based)      *)
(*   x_len, y_len, x, y, at_least, at_most, current_color, new_asc         *)
(*            the locals of these names                                    *)
(*   raised   the exception that ended the call, "" when none              *)
(*   samples  one entry per img.getpixel call: the coordinates, the pixel  *)
(*            and the colour after the lightness policy                    *)
(* and for a lookup in the flag directory:                                *)
(*   files    os.listdir('hyfetch/flags')                                  *)
(*   fn       the function that made the last lookup, "" when none         *)
(*   found    the index the lookup resolved to (1-based), 0 when none      *)
(* and for a run of the program (main.run):                               *)
(*   args     the parsed command line: scale, light (<<>> for None, <<v>>  *)
(*            for the float v, in hundredths) and config (a boolean)       *)
(*   is_light the light/dark choice (GLOBAL_CFG.is_light)                  *)
(*   cfg_lightness  the lightness of the configuration, <<>> for None      *)
(*   entry    the last line the user typed at the lightness prompt         *)
(*   prompts  the number of lines typed at the lightness prompt            *)
(*   handed   the lightness operations called so far, each with the value  *)
(*            it was handed, in hundredths                                 *)
(* and for calls of recolor_ascii one after the other:                     *)
(*   first    the string the first call returned                           *)
(*   ncalls   the number of calls that have returned                       *)
(* and for the configuration wizard (Configure.run):                       *)
(*   calls    the calls of recolor_ascii made so far, each with the        *)
(*            arguments it was given or left at their defaults             *)
(*   preset   the flag chosen, <<>> before the choice                      *)
(*   page, num_pages  the page of flags shown and the number of pages      *)
(* and for a call of literal_input:                                        *)
(*   options, default  its arguments                                       *)
(*   selected the option it returned, <<>> while it has not returned       *)
(* (entry and prompts are the last line typed and the number of lines      *)
(* typed at its prompt)                                                    *)
(***************************************************************************)
VARIABLES asc, ops, prev_str, cur_str, size,
          pc, flag, lightness, lightness_mode, foreground, rotation, term,
          color_mode, norm, pos, x_len, y_len, x, y, at_least, at_most,
          current_color, new_asc, raised, samples,
          files, fn, found,
          args, is_light, cfg_lightness, entry, prompts, handed,
          first, ncalls, calls, preset, page, num_pages,
          options, default, selected

text_vars == <<asc, ops, prev_str, cur_str, size>>
arg_vars == <<flag, lightness, lightness_mode, foreground, rotation, term, color_mode>>
local_vars == <<norm, pos, x_len, y_len, x, y, at_least, at_most,
                current_color, new_asc, raised, samples>>
lookup_vars == <<files, fn, found>>
run_vars == <<args, is_light, cfg_lightness, entry, prompts, handed>>
again_vars == <<first, ncalls>>
wizard_vars == <<calls, preset, page, num_pages>>
input_vars == <<options, default, selected>>
env_vars == <<lookup_vars, run_vars, again_vars, wizard_vars, input_vars>>
vars == <<text_vars, pc, arg_vars, local_vars, env_vars>>

\* Templates built from at most n pieces: a glyph, a newline, two
\* well-formed placeholders and the two halves of a placeholder (which give
\* truncated, split and nested placeholders).
Pieces ==
    { <<"a">>, <<NL>>,
      <<"$", "{", "c", "1", "}">>, <<"$", "{", "c", "2", "}">>,
      <<"$", "{", "c">>, <<"1", "}">> }

RECURSIVE PieceTemplates(_)
PieceTemplates(n) ==
    IF n = 0 THEN { <<>> }
    ELSE LET S == PieceTemplates(n - 1)
         IN  S \cup { s \o p : s \in S, p \in Pieces }

\* Templates of at most n lines: an empty line, lines of one and of three
\* glyphs, a line with two placeholders, and a line whose placeholder is
\* wrapped in the two halves of another.
TemplateLines ==
    { <<>>, <<"a">>, <<"a", "b", "c">>,
      <<"$", "{", "c", "1", "}", "a", "$", "{", "c", "2", "}", "b">>,
      <<"$", "{", "c", "$", "{", "c", "1", "}", "1", "}">> }

RECURSIVE LineTemplates(_)
LineTemplates(n) ==
    IF n = 1 THEN TemplateLines
    ELSE LET S == LineTemplates(n - 1)
         IN  S \cup { s \o <<NL>> \o l : s \in S, l \in TemplateLines }

\* The arguments of the calls studied.  An argument the call does not read
\* (term outside set_dl, lightness in mode None) is left at its default.
FlagArgs == { <<"r">>, <<"T">>, <<"x">> }
DefaultLightness == LMax \div 2
DefaultTerm == "dark"
Lightnesses == {1, 3}
\* The four modes of lines 152-160 and one that is none of them.
LightnessModes == {"set_dl", "set_raw", "scale", "None", "set"}
Rotations == {0, 90}
Terms == {"dark", "light"}
ColorModes == {"rgb", "8bit"}

NoCall ==
    /\ flag = <<>>
    /\ lightness = 0
    /\ lightness_mode = "None"
    /\ foreground = TRUE
    /\ rotation = 0
    /\ term = "dark"
    /\ color_mode = "rgb"

NoLocals ==
    /\ norm = <<>>
    /\ pos = 0
    /\ x_len = 0
    /\ y_len = 0
    /\ x = 0
    /\ y = 0
    /\ at_least = FALSE
    /\ at_most = FALSE
    /\ current_color = NoColor
    /\ new_asc = <<>>
    /\ raised = ""
    /\ samples = <<>>

NoText ==
    /\ ops = <<>>
    /\ prev_str = asc
    /\ cur_str = asc
    /\ size = <<0, 0>>

\* The flag directory as installed, no lookup made.
NoLookup ==
    /\ files = Files
    /\ fn = ""
    /\ found = 0

\* No run of the program.
NoRun ==
    /\ args = [scale |-> <<>>, light |-> <<>>, config |-> FALSE]
    /\ is_light = FALSE
    /\ cfg_lightness = <<>>
    /\ entry = <<>>
    /\ prompts = 0
    /\ handed = <<>>

\* No second call of recolor_ascii.
NoAgain ==
    /\ first = <<>>
    /\ ncalls = 0

\* No wizard.
NoWizard ==
    /\ calls = <<>>
    /\ preset = <<>>
    /\ page = 0
    /\ num_pages = 0

\* No call of literal_input.
NoInput ==
    /\ options = <<>>
    /\ default = <<>>
    /\ selected = <<>>

NoEnv == NoLookup /\ NoRun /\ NoAgain /\ NoWizard /\ NoInput

(***************************************************************************)
(* The text functions, called on their own.                                *)
(***************************************************************************)
TextInit ==
    /\ asc \in PieceTemplates(MaxPieces)
    /\ NoText
    /\ pc = "idle"
    /\ NoCall
    /\ NoLocals
    /\ NoEnv

\* size = ascii_size(cur)
CallAsciiSize ==
    /\ pc = "idle"
    /\ Len(ops) < MaxOps
    /\ size' = ascii_size(cur_str)
    /\ ops' = Append(ops, "ascii_size")
    /\ UNCHANGED env_vars
    /\ UNCHANGED <<asc, prev_str, cur_str, pc, arg_vars, local_vars>>

\* cur = normalize_ascii(cur)
CallNormalizeAscii ==
    /\ pc = "idle"
    /\ Len(ops) < MaxOps
    /\ prev_str' = cur_str
    /\ cur_str' = normalize_ascii(cur_str)
    /\ ops' = Append(ops, "normalize_ascii")
    /\ UNCHANGED env_vars
    /\ UNCHANGED <<asc, size, pc, arg_vars, local_vars>>

\* cur = fill_starting(cur)
CallFillStarting ==
    /\ pc = "idle"
    /\ Len(ops) < MaxOps
    /\ prev_str' = cur_str
    /\ cur_str' = fill_starting(cur_str)
    /\ ops' = Append(ops, "fill_starting")
    /\ UNCHANGED env_vars
    /\ UNCHANGED <<asc, size, pc, arg_vars, local_vars>>

TextNext == CallAsciiSize \/ CallNormalizeAscii \/ CallFillStarting

SpecText == TextInit /\ [][TextNext]_vars

(***************************************************************************)
(* recolor_ascii(asc, flag, lightness, lightness_mode, foreground,         *)
(*               rotation, term).                                          *)
(***************************************************************************)
Init ==
    /\ asc \in LineTemplates(MaxLines)
    /\ NoText
    /\ pc = "call"
    /\ flag \in FlagArgs
    /\ lightness_mode \in LightnessModes
    /\ lightness \in (IF lightness_mode \in {"None", "set"} THEN {DefaultLightness}
                      ELSE Lightnesses)
    /\ foreground \in BOOLEAN
    /\ rotation \in Rotations
    /\ term \in (IF lightness_mode = "set_dl" THEN Terms ELSE {DefaultTerm})
    /\ color_mode \in ColorModes
    /\ NoLocals
    /\ NoEnv

\* Lines 128 and 144: bold.
Bold == color(<<"&l", "ESC[1m">>)

\* Lines 116-125: the template as the loop will walk it.
Stripped == ReSub(fill_starting(asc))

\* Lines 133-137: the bounds of set_dl, the floor (at_least) for a dark
\* terminal and the ceiling (at_most) for any other.
Bounds(mode, t) ==
    [at_least |-> (mode = "set_dl" /\ t = "dark"),
     at_most |-> (mode = "set_dl" /\ t # "dark")]

\* Lines 116-137, up to the loop.  get_flag raises FileNotFoundError for a
\* flag that is not installed.  The image library is asked for an image of
\* x_len by y_len pixels; when x_len is 0 it either refuses or hands back
\* an image without pixels.
RecolorBegin ==
    /\ pc = "call"
    /\ LET lines == Split(Stripped)
           xl == MaxLen(lines)
       IN  /\ x_len' = xl
           /\ y_len' = Len(lines)
           /\ norm' = normalize_ascii(Stripped)
           /\ IF FlagIndex(flag) = 0
              THEN /\ pc' = "error"
                   /\ raised' = "FileNotFoundError"
                   /\ UNCHANGED <<new_asc, at_least, at_most>>
              ELSE \E refuses \in (IF xl = 0 THEN BOOLEAN ELSE {FALSE}) :
                     IF refuses
                     THEN /\ pc' = "error"
                          /\ raised' = "ValueError"
                          /\ UNCHANGED <<new_asc, at_least, at_most>>
                     ELSE /\ pc' = "loop"
                          /\ raised' = ""
                          /\ new_asc' = Bold
                          /\ at_least' = Bounds(lightness_mode, term).at_least
                          /\ at_most' = Bounds(lightness_mode, term).at_most
    /\ pos' = 1
    /\ x' = 0
    /\ y' = 0
    /\ current_color' = NoColor
    /\ samples' = <<>>
    /\ UNCHANGED env_vars
    /\ UNCHANGED <<text_vars, arg_vars>>

\* Variant: the colours are not cleared before the newline.
NewlineOutput_NoClear == <<Chr(NL)>> \o Bold

\* Lines 141-144: clear, newline, bold.
NewlineOutput == color(<<"&~", "&*">>) \o <<Chr(NL)>> \o Bold

\* Variant: the colour of the row before is remembered across the newline.
ColorAfterNewline_Keep == current_color

\* Line 145
ColorAfterNewline == NoColor

\* Lines 140-146: the character is a newline.
RecolorNewline ==
    /\ pc = "loop"
    /\ pos <= Len(norm)
    /\ norm[pos] = NL
    /\ new_asc' = new_asc \o NewlineOutput
    /\ current_color' = ColorAfterNewline
    /\ pos' = pos + 1
    /\ UNCHANGED env_vars
    /\ UNCHANGED <<text_vars, pc, arg_vars, norm, x_len, y_len, x, y,
                   at_least, at_most, raised, samples>>

\* Lines 152-162: the lightness policy.
Supported(mode) == mode \in {"set_dl", "set_raw", "scale", "None"}

\* Variant: set_dl with the bounds swapped, the ceiling on a dark terminal.
Transform_Swapped(c) ==
    CASE lightness_mode = "set_dl" -> set_light(c, lightness, at_most, at_least)
      [] lightness_mode = "set_raw" -> set_light(c, lightness, FALSE, FALSE)
      [] lightness_mode = "scale" -> lighten(c, lightness)
      [] OTHER -> c

\* Variant: set_dl gives the floor whatever the terminal.
Transform_FloorOnly(c) ==
    CASE lightness_mode = "set_dl" -> set_light(c, lightness, TRUE, FALSE)
      [] lightness_mode = "set_raw" -> set_light(c, lightness, FALSE, FALSE)
      [] lightness_mode = "scale" -> lighten(c, lightness)
      [] OTHER -> c

Transform(c) ==
    CASE lightness_mode = "set_dl" -> set_light(c, lightness, at_least, at_most)
      [] lightness_mode = "set_raw" -> set_light(c, lightness, FALSE, FALSE)
      [] lightness_mode = "scale" -> lighten(c, lightness)
      [] OTHER -> c

\* Variant: a colour sequence in front of every glyph.
NeedsSwitch_Always(color_str, current) == TRUE

\* Line 166
NeedsSwitch(color_str, current) == color_str # current

\* Lines 147-171: any other character.  getpixel raises IndexError outside
\* the image.
RecolorGlyph ==
    /\ pc = "loop"
    /\ pos <= Len(norm)
    /\ norm[pos] # NL
    /\ LET wrap == (x = x_len)
           x1 == IF wrap THEN 0 ELSE x
           y1 == IF wrap THEN y + 1 ELSE y
       IN  IF ~(x1 < x_len /\ y1 < y_len)
           THEN /\ pc' = "error"
                /\ raised' = "IndexError"
                /\ UNCHANGED <<x, y, current_color, new_asc, samples, pos>>
           ELSE IF ~Supported(lightness_mode)
           THEN /\ pc' = "error"
                /\ raised' = "NotImplementedError"
                /\ x' = x1
                /\ y' = y1
                /\ UNCHANGED <<current_color, new_asc, samples, pos>>
           ELSE LET pixel == GetPixel(flag, rotation, x_len, y_len, x1, y1)
                    rgb_color == Transform(pixel)
                    color_str == to_ansi(rgb_color, foreground, color_mode)
                IN  /\ new_asc' = (IF NeedsSwitch(color_str, current_color)
                                   THEN Append(new_asc, color_str)
                                   ELSE new_asc) \o <<Chr(norm[pos])>>
                    /\ current_color' = color_str
                    /\ samples' = Append(samples,
                                     [x |-> x1, y |-> y1, pixel |-> pixel, c |-> rgb_color])
                    /\ x' = x1 + 1
                    /\ y' = y1
                    /\ pos' = pos + 1
                    /\ UNCHANGED <<pc, raised>>
    /\ UNCHANGED env_vars
    /\ UNCHANGED <<text_vars, arg_vars, norm, x_len, y_len, at_least, at_most>>

\* Variant: bold is left on.
EndOutput_NoUnbold == color(<<"&~", "&*">>)

\* Lines 173-175: unbold + clear.
EndOutput == color(<<"&l", "ESC[22m">>) \o color(<<"&~", "&*">>)

\* Lines 173-176: after the loop.
RecolorEnd ==
    /\ pc = "loop"
    /\ pos > Len(norm)
    /\ new_asc' = new_asc \o EndOutput
    /\ pc' = "done"
    /\ UNCHANGED env_vars
    /\ UNCHANGED <<text_vars, arg_vars, norm, pos, x_len, y_len, x, y,
                   at_least, at_most, current_color, raised, samples>>

Next == RecolorBegin \/ RecolorNewline \/ RecolorGlyph \/ RecolorEnd

Spec == Init /\ [][Next]_vars

(***************************************************************************)
(* Vocabulary of the properties of recolor_ascii: the output read as rows  *)
(* of glyphs with escape sequences in between.                             *)
(***************************************************************************)
IsNewline(t) == t.k = "chr" /\ t.s = NL
IsGlyph(t) == t.k = "chr" /\ t.s # NL
IsColorSwitch(t) == t.k = "sgr" /\ t.s \in {"38;2", "48;2", "38;5", "48;5"}

GlyphPositions == { j \in 1..Len(new_asc) : IsGlyph(new_asc[j]) }
NewlinePositions == { j \in 1..Len(new_asc) : IsNewline(new_asc[j]) }
SwitchPositions == { j \in 1..Len(new_asc) : IsColorSwitch(new_asc[j]) }

\* 0-based output row of position j, 0-based column of the glyph at j.
RowOf(j) == Cardinality({ i \in NewlinePositions : i < j })
ColOf(j) == Cardinality({ i \in GlyphPositions : i < j /\ RowOf(i) = RowOf(j) })

\* The getpixel call made for the glyph at position j.
SampleOf(j) == samples[Cardinality({ i \in GlyphPositions : i <= j })]

\* The glyph at j is preceded by a colour-switch sequence.
SwitchBefore(j) == j > 1 /\ IsColorSwitch(new_asc[j - 1])

\* The glyph at j is not the first of its row; the glyph before it.
HasPrevInRow(j) == ColOf(j) > 0
PrevGlyph(j) == CHOOSE i \in GlyphPositions :
                    /\ i < j
                    /\ \A q \in GlyphPositions : q < j => q <= i

Rows == 0..Cardinality(NewlinePositions)
GlyphsOfRow(r) == { j \in GlyphPositions : RowOf(j) = r }
SwitchesOfRow(r) == { j \in SwitchPositions : RowOf(j) = r }

\* The template holds no placeholder once its placeholders are removed.
StripsClean == ReSub(Stripped) = Stripped

\* The input template without placeholders, every line padded to the widest.
RECURSIVE Chars(_)
Chars(out) ==
    IF Len(out) = 0 THEN <<>>
    ELSE IF Head(out).k = "chr" THEN <<Head(out).s>> \o Chars(Tail(out))
    ELSE Chars(Tail(out))

PaddedTemplate ==
    LET lines == Split(ReSub(asc))
    IN  Join([k \in 1..Len(lines) |-> LJust(lines[k], MaxLen(lines))])

\* The style of a terminal that starts in default style and has received
\* the first j pieces of the output: colours 0 are the default colours.
RECURSIVE TermAfter(_)
TermAfter(j) ==
    IF j = 0 THEN [fg |-> 0, bg |-> 0, bold |-> FALSE]
    ELSE LET st == TermAfter(j - 1)
             t == new_asc[j]
         IN  CASE t.k = "sgr" /\ t.s = "1" -> [st EXCEPT !.bold = TRUE]
               [] t.k = "sgr" /\ t.s = "22" -> [st EXCEPT !.bold = FALSE]
               [] t.k = "sgr" /\ t.s = "39" -> [st EXCEPT !.fg = 0]
               [] t.k = "sgr" /\ t.s = "49" -> [st EXCEPT !.bg = 0]
               [] t.k = "sgr" /\ t.s \in {"38;2", "38;5"} -> [st EXCEPT !.fg = t.n + 1]
               [] t.k = "sgr" /\ t.s \in {"48;2", "48;5"} -> [st EXCEPT !.bg = t.n + 1]
               [] OTHER -> st

(***************************************************************************)
(* C1.  Every glyph of the output is coloured from the pixel (x, y) of its *)
(* own cell, x its 0-based column and y its 0-based output row, and every  *)
(* sample lies inside the x_len by y_len flag grid.  The second strip that *)
(* normalize_ascii makes lets a line stay short, and the statement fails.  *)
(***************************************************************************)
C1_SampleIsCell ==
    /\ raised # "IndexError"
    /\ Len(samples) = Cardinality(GlyphPositions)
    /\ \A j \in GlyphPositions :
           /\ SampleOf(j).x = ColOf(j)
           /\ SampleOf(j).y = RowOf(j)
           /\ 0 <= SampleOf(j).x /\ SampleOf(j).x < x_len
           /\ 0 <= SampleOf(j).y /\ SampleOf(j).y < y_len

(***************************************************************************)
(* C2.  As claimed: a colour-switch sequence precedes a glyph exactly when *)
(* the glyph is the first of its row or its transformed colour differs     *)
(* from the transformed colour of the glyph before it in the row.          *)
(* (Stated for the templates that strip clean, where rows and cells        *)
(* agree.)                                                                 *)
(***************************************************************************)
C2_SwitchIffColorDiffers ==
    (StripsClean /\ pc = "done") =>
        \A j \in GlyphPositions :
            SwitchBefore(j) <=>
                \/ ~HasPrevInRow(j)
                \/ SampleOf(j).c # SampleOf(PrevGlyph(j)).c

(***************************************************************************)
(* C2, amended.  A colour-switch sequence precedes a glyph exactly when    *)
(* the glyph is the first of its row or the escape sequence of its         *)
(* transformed colour differs from that of the glyph before it in the row; *)
(* the sequence is the one of the glyph's transformed colour; no           *)
(* colour-switch sequence stands anywhere else.                            *)
(***************************************************************************)
C2_SwitchIffSequenceDiffers ==
    pc = "done" =>
        /\ \A j \in GlyphPositions :
               LET seq == to_ansi(SampleOf(j).c, foreground, color_mode)
               IN  /\ SwitchBefore(j) <=>
                          \/ ~HasPrevInRow(j)
                          \/ seq # to_ansi(SampleOf(PrevGlyph(j)).c,
                                           foreground, color_mode)
                   /\ SwitchBefore(j) => new_asc[j - 1] = seq
        /\ \A p \in SwitchPositions : p + 1 \in GlyphPositions

\* A returned string, sampled cell by cell, in which a glyph changes the
\* transformed colour without a new sequence (8-bit mode), a later glyph of
\* the row gets one, and so does the first glyph of the second row.
C2_Witness ==
    /\ pc = "done"
    /\ StripsClean
    /\ \E j \in GlyphPositions :
           /\ HasPrevInRow(j)
           /\ ~SwitchBefore(j)
           /\ SampleOf(j).c # SampleOf(PrevGlyph(j)).c
    /\ \E j \in GlyphPositions : HasPrevInRow(j) /\ SwitchBefore(j)
    /\ \E j \in GlyphPositions : RowOf(j) > 0 /\ ~HasPrevInRow(j) /\ SwitchBefore(j)

(***************************************************************************)
(* C3.  As claimed: a row of the output holds at most as many              *)
(* colour-switch sequences as the row of the flag grid has distinct        *)
(* colours.  (Stated for the templates that strip clean.)                  *)
(***************************************************************************)
GridRowColors(r) ==
    { GetPixel(flag, rotation, x_len, y_len, xx, r) : xx \in 0..(x_len - 1) }

C3_AtMostKSwitches ==
    (StripsClean /\ pc = "done") =>
        \A r \in Rows :
            Cardinality(SwitchesOfRow(r)) <= Cardinality(GridRowColors(r))

(***************************************************************************)
(* C3, amended.  A row of the output holds at most one colour-switch       *)
(* sequence per maximal run of equal pixel colour along the row, hence at  *)
(* most as many as it has glyphs.                                          *)
(***************************************************************************)
PixelRunStarts(r) ==
    { j \in GlyphsOfRow(r) :
        \/ ~HasPrevInRow(j)
        \/ SampleOf(j).pixel # SampleOf(PrevGlyph(j)).pixel }

C3_AtMostOnePerRun ==
    pc = "done" =>
        \A r \in Rows :
            /\ Cardinality(SwitchesOfRow(r)) <= Cardinality(PixelRunStarts(r))
            /\ Cardinality(SwitchesOfRow(r)) <= Cardinality(GlyphsOfRow(r))

\* A finished row, sampled cell by cell, with three sequences, one per
\* run, for two colours.
C3_Witness ==
    /\ pc = "done"
    /\ StripsClean
    /\ \E r \in Rows :
           /\ Cardinality(SwitchesOfRow(r)) = 3
           /\ Cardinality(PixelRunStarts(r)) = 3
           /\ Cardinality(GridRowColors(r)) = 2

(***************************************************************************)
(* C4.  Framing of the returned string, h the number of lines of the       *)
(* template: every row begins with bold-on; every newline stands between   *)
(* a style reset and the bold-on of the next row; the string ends with     *)
(* unbold and a style reset, after every glyph and newline; there are      *)
(* h - 1 newlines.                                                         *)
(***************************************************************************)
StyleResetAt(j) ==
    /\ j >= 1
    /\ j + 1 <= Len(new_asc)
    /\ new_asc[j] = Sgr("39", 0)
    /\ new_asc[j + 1] = Sgr("49", 0)

BoldOnAt(j) == j >= 1 /\ j <= Len(new_asc) /\ new_asc[j] = Sgr("1", 0)

C4_Framing ==
    pc = "done" =>
        LET n == Len(new_asc)
        IN  /\ Cardinality(NewlinePositions) = Len(Split(asc)) - 1
            /\ BoldOnAt(1)
            /\ \A p \in NewlinePositions :
                   /\ StyleResetAt(p - 2)
                   /\ BoldOnAt(p + 1)
            /\ n >= 3
            /\ new_asc[n - 2] = Sgr("22", 0)
            /\ StyleResetAt(n - 1)
            /\ \A j \in 1..n :
                   /\ new_asc[j] = Sgr("22", 0) => j = n - 2
                   /\ new_asc[j].k = "chr" => j < n - 2

\* A returned string of two rows that both have glyphs.
C4_Witness ==
    /\ pc = "done"
    /\ Cardinality(NewlinePositions) = 1
    /\ \A r \in Rows : GlyphsOfRow(r) # {}

(***************************************************************************)
(* C5.  On a terminal that starts in default style, no colour set by the   *)
(* output is active at any newline of the output, and neither a colour nor *)
(* bold is active after the returned string.                               *)
(***************************************************************************)
C5_NoEscapeStateLeft ==
    pc = "done" =>
        /\ \A p \in NewlinePositions :
               TermAfter(p - 1).fg = 0 /\ TermAfter(p - 1).bg = 0
        /\ TermAfter(Len(new_asc)) = [fg |-> 0, bg |-> 0, bold |-> FALSE]

\* A returned string of two rows coloured by background, the colour and
\* bold active at the last glyph of each.
C5_Witness ==
    /\ pc = "done"
    /\ ~foreground
    /\ Cardinality(NewlinePositions) = 1
    /\ \A r \in Rows :
           \E j \in GlyphsOfRow(r) : TermAfter(j).bg # 0 /\ TermAfter(j).bold

(***************************************************************************)
(* C6.  With its escape sequences removed, the returned string is the      *)
(* template with its placeholders removed and every line padded with       *)
(* spaces to the widest.  The second strip that normalize_ascii makes      *)
(* (ascii_size strips again) pads to a smaller width, and the statement    *)
(* fails.                                                                  *)
(***************************************************************************)
C6_GlyphsArePaddedTemplate ==
    pc = "done" => Chars(new_asc) = PaddedTemplate

(***************************************************************************)
(* Vocabulary of the properties of the text functions.                     *)
(***************************************************************************)
LastOp == IF Len(ops) = 0 THEN "none" ELSE ops[Len(ops)]

\* The positions of a line where a placeholder starts.
PlaceholderAt(line) == { i \in 1..Len(line) : RE_NEOFETCH_COLOR(line, i) }

HasPlaceholder(line) == PlaceholderAt(line) # {}

\* The rightmost placeholder of a line that has one.
LastPlaceholder(line) ==
    LET i == CHOOSE p \in PlaceholderAt(line) :
                 \A q \in PlaceholderAt(line) : q <= p
    IN  SubSeq(line, i, i + 4)

\* The lines before line k that carry a placeholder.
Bearing(lines, k) == { j \in 1..(k - 1) : HasPlaceholder(lines[j]) }

\* What line k is to inherit: the rightmost placeholder of the nearest
\* line before it that carries one, nothing when there is none.
Inherited(lines, k) ==
    IF Bearing(lines, k) = {} THEN <<>>
    ELSE LET j == CHOOSE p \in Bearing(lines, k) :
                      \A q \in Bearing(lines, k) : q <= p
         IN  LastPlaceholder(lines[j])

\* What fill_starting put in front of line k.
Prepended(k) ==
    LET before == Split(prev_str)[k]
        after == Split(cur_str)[k]
    IN  SubSeq(after, 1, Len(after) - Len(before))

Rectangular(s) == \A k \in 1..Len(Split(s)) : Len(Split(s)[k]) = Len(Split(s)[1])

(***************************************************************************)
(* C7.  Width invariant: every line of normalize_ascii(T), once its        *)
(* placeholders are removed, is as wide as the widest line of T once its   *)
(* placeholders are removed.  The code pads by the raw length of the line, *)
(* placeholders included, so the statement fails.                          *)
(***************************************************************************)
C7_WidthInvariant ==
    LastOp = "normalize_ascii" =>
        \A k \in 1..Len(Split(cur_str)) :
            Len(ReSub(Split(cur_str)[k])) = MaxLen(Split(ReSub(prev_str)))

(***************************************************************************)
(* C8.  Idempotence of normalization: a placeholder-free template whose    *)
(* lines all have the same length is returned unchanged, and normalizing   *)
(* the result of a normalization changes nothing.                          *)
(***************************************************************************)
C8_Idempotent ==
    /\ ( /\ LastOp = "normalize_ascii"
         /\ ~HasPlaceholder(prev_str)
         /\ Rectangular(prev_str) ) => cur_str = prev_str
    /\ ops = <<"normalize_ascii", "normalize_ascii">> => cur_str = prev_str

\* A second normalization of a template that has a placeholder and that the
\* first normalization did change.
C8_Witness ==
    /\ ops = <<"normalize_ascii", "normalize_ascii">>
    /\ HasPlaceholder(asc)
    /\ prev_str # asc

(***************************************************************************)
(* C9.  Continuation correctness: what fill_starting puts in front of a    *)
(* line is the last placeholder of the nearest line before it that has a   *)
(* placeholder, and nothing when no line before it has one.                *)
(***************************************************************************)
C9_Continuation ==
    LastOp = "fill_starting" =>
        /\ Len(Split(cur_str)) = Len(Split(prev_str))
        /\ \A k \in 1..Len(Split(prev_str)) :
               /\ Len(Split(cur_str)[k]) >= Len(Split(prev_str)[k])
               /\ Prepended(k) = Inherited(Split(prev_str), k)

\* A line that inherits across a placeholder-free line from a line with two
\* different placeholders.
C9_Witness ==
    /\ LastOp = "fill_starting"
    /\ \E k \in 3..Len(Split(prev_str)) :
           /\ ~HasPlaceholder(Split(prev_str)[k - 1])
           /\ Cardinality(PlaceholderAt(Split(prev_str)[k - 2])) = 2
           /\ FindAll(Split(prev_str)[k - 2])[1] # FindAll(Split(prev_str)[k - 2])[2]
           /\ Prepended(k) = FindAll(Split(prev_str)[k - 2])[2]

C11_ZeroWidthEmpty ==
    (pc \in {"done", "error"} /\ x_len = 0 /\ FlagIndex(flag) # 0) =>
        (pc = "done" /\ new_asc = <<>>)

(***************************************************************************)
(* C12.  When the case-folded flag name is the stem of no installed file,  *)
(* the call ends with FileNotFoundError and nothing else: no character and *)
(* no escape sequence has been built, the loop is never entered and no     *)
(* pixel is sampled, whatever the template, the lightness mode, the        *)
(* rotation and foreground.                                                *)
(***************************************************************************)
Installed(name) == \E i \in 1..Len(Files) : Stem(Files[i]) = Lower(name)

C12_MissingFlagRaisesFirst ==
    (~Installed(flag) /\ pc # "call") =>
        /\ pc = "error"
        /\ raised = "FileNotFoundError"
        /\ new_asc = <<>>
        /\ samples = <<>>

C12_Witness ==
    /\ ~Installed(flag)
    /\ pc = "error"
    /\ raised = "FileNotFoundError"
    /\ x_len > 0
    /\ lightness_mode = "scale"
    /\ rotation = 90
    /\ ~foreground

(***************************************************************************)
(* The lookup of a flag file, on its own: get_flag (flag_utils.py) and     *)
(* get_array (image_util.py) against a directory listing.                  *)
(***************************************************************************)
MaxFiles == 2

FileNames ==
    { <<"r", ".", "p", "n", "g">>, <<"R", ".", "p", "n", "g">>,
      <<"r", "t", ".", "p", "n", "g">>, <<"T", ".", "p", "n", "g">> }

\* os.listdir: at most n files of different names, in any order.
Listings(n) ==
    { l \in UNION { [1..k -> FileNames] : k \in 0..n } :
        \A i, j \in 1..Len(l) : l[i] = l[j] => i = j }

FlagNames ==
    { <<"r">>, <<"R">>, <<"r", "t">>, <<"R", "T">>, <<"t">>, <<"T">>, <<"x">> }

LookupInit ==
    /\ asc = <<>>
    /\ NoText
    /\ pc = "lookup"
    /\ NoCall
    /\ NoLocals
    /\ files \in Listings(MaxFiles) \ { <<>> }
    /\ fn = ""
    /\ found = 0
    /\ NoRun
    /\ NoAgain
    /\ NoWizard
    /\ NoInput

\* The end of a lookup that gave index (0: the name is not in the list).
Resolve(index) ==
    /\ found' = index
    /\ IF index = 0
       THEN pc' = "error" /\ raised' = "FileNotFoundError"
       ELSE pc' = "found" /\ raised' = ""

\* get_flag(flag, ...), lines 51-61: the requested name is lower-cased, the
\* file names are not.
CallGetFlag ==
    /\ UNCHANGED input_vars
    /\ pc = "lookup"
    /\ \E name \in FlagNames :
         /\ flag' = name
         /\ Resolve(IndexOf(files_no_ext(files), Lower(name)))
    /\ fn' = "get_flag"
    /\ UNCHANGED <<text_vars, lightness, lightness_mode, foreground, rotation,
                   term, color_mode, files, run_vars,
                   again_vars, wizard_vars>>
    /\ UNCHANGED <<norm, pos, x_len, y_len, x, y, at_least, at_most,
                   current_color, new_asc, samples>>

\* get_array(flag, ...), lines 11-22: neither side is lower-cased.
CallGetArray ==
    /\ UNCHANGED input_vars
    /\ pc = "lookup"
    /\ \E name \in FlagNames :
         /\ flag' = name
         /\ Resolve(IndexOf(files_no_ext(files), name))
    /\ fn' = "get_array"
    /\ UNCHANGED <<text_vars, lightness, lightness_mode, foreground, rotation,
                   term, color_mode, files, run_vars,
                   again_vars, wizard_vars>>
    /\ UNCHANGED <<norm, pos, x_len, y_len, x, y, at_least, at_most,
                   current_color, new_asc, samples>>

LookupNext == CallGetFlag \/ CallGetArray

SpecLookup == LookupInit /\ [][LookupNext]_vars

(***************************************************************************)
(* C13.  As claimed: a lookup (get_flag, and get_array likewise) resolves  *)
(* exactly when the case-folded name equals the case-folded stem of an     *)
(* installed file, whatever the letter case of either, and then to such a  *)
(* file; otherwise it fails with FileNotFoundError.  get_flag folds the    *)
(* requested name only, so a file whose name has an upper-case letter is   *)
(* never found; get_array folds neither side.                              *)
(***************************************************************************)
FoldedMatch(i) == Lower(Stem(files[i])) = Lower(flag)

C13_CaseInsensitiveExact ==
    (fn # "") =>
        /\ (pc = "found") <=> (\E i \in 1..Len(files) : FoldedMatch(i))
        /\ (pc = "found") => FoldedMatch(found)
        /\ (pc = "error") => raised = "FileNotFoundError"

(***************************************************************************)
(* C14.  As claimed: with an installed flag and a lightness_mode that is   *)
(* none of set_dl, set_raw, scale and None, the call ends with             *)
(* NotImplementedError and returns no string.  The mode is looked at only  *)
(* when a glyph is coloured (line 162), so a template without glyphs never *)
(* gets there.                                                             *)
(***************************************************************************)
C14_UnsupportedModeRaises ==
    (~Supported(lightness_mode) /\ FlagIndex(flag) # 0 /\ pc \in {"done", "error"}) =>
        (pc = "error" /\ raised = "NotImplementedError")

(***************************************************************************)
(* C15.  Every sampled colour of one call is adjusted by the policy of the *)
(* call's lightness_mode: set_dl, set_light with the floor and no ceiling  *)
(* on a dark terminal, with the ceiling and no floor on a light one;       *)
(* set_raw, set_light with neither bound; scale, lighten(lightness); None, *)
(* the sampled colour unchanged.                                           *)
(***************************************************************************)
Policy(mode, dark, pixel) ==
    CASE mode = "set_dl" /\ dark -> set_light(pixel, lightness, TRUE, FALSE)
      [] mode = "set_dl" /\ ~dark -> set_light(pixel, lightness, FALSE, TRUE)
      [] mode = "set_raw" -> set_light(pixel, lightness, FALSE, FALSE)
      [] mode = "scale" -> lighten(pixel, lightness)
      [] mode = "None" -> pixel

C15_PolicyDispatch ==
    \A k \in 1..Len(samples) :
        samples[k].c = Policy(lightness_mode, term = "dark", samples[k].pixel)

C15_Witness ==
    /\ pc = "done"
    /\ lightness_mode = "set_dl"
    /\ term = "light"
    /\ \E k \in 1..Len(samples) : samples[k].c.l < samples[k].pixel.l
    /\ \E k \in 1..Len(samples) : samples[k].c = samples[k].pixel

MaxPrompts == 2

DigitSeq == <<"0", "1", "2", "3", "4", "5", "6", "7", "8", "9">>
DigitOf(ch) == (CHOOSE d \in 1..10 : DigitSeq[d] = ch) - 1

AllDigits(s) == \A i \in 1..Len(s) : s[i] \in Digits

\* The number a string of digits reads as.
RECURSIVE DigitsValue(_)
DigitsValue(s) ==
    IF Len(s) = 0 THEN 0
    ELSE 10 * DigitsValue(SubSeq(s, 1, Len(s) - 1)) + DigitOf(s[Len(s)])

\* str.strip()
RECURSIVE Strip(_)
Strip(s) ==
    IF Len(s) > 0 /\ Head(s) = SP THEN Strip(Tail(s))
    ELSE IF Len(s) > 0 /\ s[Len(s)] = SP THEN Strip(SubSeq(s, 1, Len(s) - 1))
    ELSE s

Unsigned(s) == IF Len(s) > 0 /\ s[1] \in {"-", "+"} THEN Tail(s) ELSE s
SignOf(s) == IF Len(s) > 0 /\ s[1] = "-" THEN -1 ELSE 1

\* A parse that raised ValueError, a parse that gave the number v (in
\* hundredths), and a parse that gave nan.
ParseError == [ok |-> FALSE, nan |-> FALSE, v |-> 0]
Parsed(v) == [ok |-> TRUE, nan |-> FALSE, v |-> v]
ParsedNaN == [ok |-> TRUE, nan |-> TRUE, v |-> 0]

\* int(s) / 100: an optional sign and one or more digits.
ParsePercent(s) ==
    LET body == Unsigned(s)
    IN  IF Len(body) > 0 /\ AllDigits(body)
        THEN Parsed(SignOf(s) * DigitsValue(body))
        ELSE ParseError

\* float(s): an optional sign, digits with an optional point (two decimals
\* are kept), or nan.
ParseFloat(s) ==
    LET body == Unsigned(s)
        dots == { i \in 1..Len(body) : body[i] = "." }
        dot == IF dots = {} THEN Len(body) + 1 ELSE CHOOSE i \in dots : TRUE
        whole == SubSeq(body, 1, dot - 1)
        frac == SubSeq(body, dot + 1, Len(body))
        frac2 == SubSeq(frac \o <<"0", "0">>, 1, 2)
    IN  IF body = <<"n", "a", "n">> THEN ParsedNaN
        ELSE IF /\ Cardinality(dots) <= 1
                /\ Len(whole) + Len(frac) > 0
                /\ AllDigits(whole)
                /\ AllDigits(frac)
        THEN Parsed(SignOf(s) * (100 * DigitsValue(whole) + DigitsValue(frac2)))
        ELSE ParseError

\* Line 185: a percentage or a decimal.
ParseLightness(s) ==
    IF Len(s) > 0 /\ s[Len(s)] = "%"
    THEN ParsePercent(SubSeq(s, 1, Len(s) - 1))
    ELSE ParseFloat(s)

\* Line 186: assert 0 <= lightness <= 1; a comparison with nan is false.
InRange(p) == ~p.nan /\ 0 <= p.v /\ p.v <= 100

\* bool(x) of an optional float: None and 0.0 are false.
Truthy(opt) == opt # <<>> /\ opt # <<0>>

\* What the user may type at the brightness prompt.
Entries ==
    { <<>>, <<"n", "o", "n", "e">>, <<"u", "n", "s", "e", "T">>,
      <<" ", "5", "0", "%">>, <<"1", "5", "0", "%">>, <<"5", ".", "5", "%">>,
      <<"0", ".", "5">>, <<"1", ".", "5">>, <<"-", "1">>, <<"0">>,
      <<"n", "a", "n">>, <<"a">> }

\* What --c-scale and --c-set-l may carry (argparse, type=float), and the
\* lightness a configuration file written by the wizard may hold.
CliFloats == { <<>>, <<0>>, <<50>>, <<150>>, <<-50>> }
FileLightness == { <<>>, <<65>> }

RunInit ==
    /\ asc = <<>>
    /\ NoText
    /\ pc = "args"
    /\ NoCall
    /\ NoLocals
    /\ NoLookup
    /\ args \in [scale : CliFloats, light : CliFloats, config : BOOLEAN]
    /\ is_light \in BOOLEAN
    /\ cfg_lightness \in FileLightness
    /\ entry = <<>>
    /\ prompts = 0
    /\ handed = <<>>
    /\ NoAgain
    /\ NoWizard
    /\ NoInput

Hand(op, v) == [op |-> op, v |-> v]

\* run(), lines 303-307: the configuration is loaded, or made anew with
\* --config.
LoadConfig ==
    /\ UNCHANGED input_vars
    /\ pc = "args"
    /\ pc' = IF args.config THEN "previews" ELSE "overrides"
    /\ UNCHANGED <<text_vars, arg_vars, local_vars, lookup_vars, run_vars,
                   again_vars, wizard_vars>>

\* create_config(), lines 167-171: the previews, from the first ratio to
\* the last.
Ratios == IF is_light THEN <<10, 50>> ELSE <<50, 90>>

ShowPreviews ==
    /\ UNCHANGED input_vars
    /\ pc = "previews"
    /\ handed' = handed \o [i \in 1..Len(Ratios) |-> Hand("set_light_dl", Ratios[i])]
    /\ pc' = "prompt"
    /\ UNCHANGED <<text_vars, arg_vars, local_vars, lookup_vars,
                   again_vars, wizard_vars, args, is_light, cfg_lightness, entry, prompts>>

\* create_config(), lines 174-193: one line typed at the prompt.  Blank,
\* unset and none leave the lightness unset; a value that parses and lies
\* in range is taken and the preset is adjusted with it; anything else is
\* asked again.
EnterLightness ==
    /\ UNCHANGED input_vars
    /\ pc = "prompt"
    /\ prompts < MaxPrompts
    /\ \E typed \in Entries :
         LET text == Lower(Strip(typed))
             p == ParseLightness(text)
         IN  /\ entry' = typed
             /\ IF text = <<>> \/ text \in { <<"u", "n", "s", "e", "t">>,
                                             <<"n", "o", "n", "e">> }
                THEN /\ cfg_lightness' = <<>>
                     /\ handed' = handed
                     /\ pc' = "overrides"
                ELSE IF p.ok /\ InRange(p)
                THEN /\ cfg_lightness' = <<p.v>>
                     /\ handed' = IF Truthy(<<p.v>>)
                                  THEN Append(handed, Hand("set_light_dl", p.v))
                                  ELSE handed
                     /\ pc' = "overrides"
                ELSE /\ UNCHANGED <<cfg_lightness, handed>>
                     /\ pc' = "prompt"
    /\ prompts' = prompts + 1
    /\ UNCHANGED <<text_vars, arg_vars, local_vars, lookup_vars, again_vars,
                   wizard_vars, args, is_light>>

\* run(), lines 322-328: the lightness overrides.
Overrides ==
    /\ UNCHANGED input_vars
    /\ pc = "overrides"
    /\ handed' = handed
                   \o (IF Truthy(args.scale)
                       THEN <<Hand("lighten", args.scale[1])>> ELSE <<>>)
                   \o (IF Truthy(args.light)
                       THEN <<Hand("set_light_raw", args.light[1])>> ELSE <<>>)
                   \o (IF Truthy(cfg_lightness)
                       THEN <<Hand("set_light_dl", cfg_lightness[1])>> ELSE <<>>)
    /\ pc' = "ran"
    /\ UNCHANGED <<text_vars, arg_vars, local_vars, lookup_vars,
                   again_vars, wizard_vars, args, is_light, cfg_lightness, entry, prompts>>

RunNext == LoadConfig \/ ShowPreviews \/ EnterLightness \/ Overrides

SpecRun == RunInit /\ [][RunNext]_vars

(***************************************************************************)
(* C17.  As claimed: every lightness value handed to a lightness operation *)
(* (set_light_raw, set_light_dl) lies in [0, 1], whatever the user typed   *)
(* and whatever the command line carried.  The prompt does reject what     *)
(* cannot be parsed or lies outside the range; the value of --c-set-l is   *)
(* handed on as it is.                                                     *)
(***************************************************************************)
C17_HandedInRange ==
    \A k \in 1..Len(handed) :
        handed[k].op \in {"set_light_raw", "set_light_dl"} =>
            (0 <= handed[k].v /\ handed[k].v <= 100)

(***************************************************************************)
(* C18.  As claimed, for a template that holds a malformed placeholder (a  *)
(* "${c" that does not begin '${c' + digit + '}') and a call with an       *)
(* installed flag and a supported mode: the call does not raise; the       *)
(* malformed sequence is not stripped and counts toward the width (x_len   *)
(* is the width of the template with its well-formed placeholders          *)
(* removed); the glyphs of the returned string are that text, padded; and  *)
(* every glyph is coloured from the pixel of its own cell.  The second     *)
(* strip of normalize_ascii (see C6) takes what is left of a malformed     *)
(* sequence around a well-formed one for a placeholder, and the rows fall  *)
(* out of step with the grid.                                              *)
(***************************************************************************)
HasMalformed(s) ==
    \E i \in 1..Len(s) :
        /\ i + 2 <= Len(s)
        /\ s[i] = "$" /\ s[i + 1] = "{" /\ s[i + 2] = "c"
        /\ ~RE_NEOFETCH_COLOR(s, i)

C18_MalformedIsText ==
    (HasMalformed(asc) /\ FlagIndex(flag) # 0 /\ Supported(lightness_mode)) =>
        /\ pc # "error"
        /\ pc # "call" => x_len = MaxLen(Split(ReSub(asc)))
        /\ pc = "done" =>
              /\ Chars(new_asc) = PaddedTemplate
              /\ \A j \in GlyphPositions :
                     SampleOf(j).x = ColOf(j) /\ SampleOf(j).y = RowOf(j)

(***************************************************************************)
(* Two calls of recolor_ascii with the same arguments, and between them    *)
(* the steps of the wizard that write the process-wide settings            *)
(* (Configure.run, lines 216-225).                                         *)
(***************************************************************************)
AgainTemplates == TemplateLines \cup { <<"a", NL, "a", "b", "c">> }

AgainInit ==
    /\ asc \in AgainTemplates
    /\ NoText
    /\ pc = "call"
    /\ flag \in { <<"r">>, <<"T">> }
    /\ lightness_mode \in {"set_dl", "None"}
    /\ lightness \in (IF lightness_mode = "None" THEN {DefaultLightness}
                      ELSE Lightnesses)
    /\ foreground \in BOOLEAN
    /\ rotation \in Rotations
    /\ term \in (IF lightness_mode = "set_dl" THEN Terms ELSE {DefaultTerm})
    /\ color_mode \in ColorModes
    /\ NoLocals
    /\ NoLookup
    /\ NoRun
    /\ NoAgain
    /\ NoWizard
    /\ NoInput

\* Configure.run, lines 217-218: the color system is selected and written
\* to GLOBAL_CFG.color_mode.
SetColorMode ==
    /\ UNCHANGED input_vars
    /\ pc = "done"
    /\ ncalls = 0
    /\ \E mode \in ColorModes : color_mode' = mode
    /\ UNCHANGED <<text_vars, pc, flag, lightness, lightness_mode, foreground,
                   rotation, term, local_vars, lookup_vars, run_vars,
                   again_vars, wizard_vars>>

\* Configure.run, line 224: light or dark is selected and written to
\* GLOBAL_CFG.is_light.
SetLightDark ==
    /\ UNCHANGED input_vars
    /\ pc = "done"
    /\ ncalls = 0
    /\ \E light \in BOOLEAN : is_light' = light
    /\ UNCHANGED <<text_vars, pc, arg_vars, local_vars, lookup_vars,
                   args, cfg_lightness, entry, prompts, handed,
                   again_vars, wizard_vars>>

\* The string of the first call is kept and recolor_ascii is called again
\* with the same arguments.
RecolorAgain ==
    /\ UNCHANGED input_vars
    /\ pc = "done"
    /\ ncalls = 0
    /\ first' = new_asc
    /\ ncalls' = 1
    /\ pc' = "call"
    /\ norm' = <<>>
    /\ pos' = 0
    /\ x_len' = 0
    /\ y_len' = 0
    /\ x' = 0
    /\ y' = 0
    /\ at_least' = FALSE
    /\ at_most' = FALSE
    /\ current_color' = NoColor
    /\ new_asc' = <<>>
    /\ raised' = ""
    /\ samples' = <<>>
    /\ UNCHANGED <<text_vars, arg_vars, lookup_vars, run_vars, wizard_vars>>

AgainNext == Next \/ SetColorMode \/ SetLightDark \/ RecolorAgain

SpecAgain == AgainInit /\ [][AgainNext]_vars

(***************************************************************************)
(* C19.  As claimed: a second call of recolor_ascii with the same          *)
(* template, flag, lightness, lightness mode, foreground, rotation and     *)
(* term returns the string the first call returned, whatever the wizard    *)
(* wrote to the process-wide settings in between.  The escape sequences    *)
(* are made in the process-wide color mode, which is not an argument.      *)
(***************************************************************************)
C19_SameArgsSameString ==
    (pc = "done" /\ ncalls = 1) => new_asc = first

(***************************************************************************)
(* literal_input(prompt, options, default) (neofetch_util.py lines 28-69;  *)
(* main.py lines 39-80 is the same function): the pure part.               *)
(***************************************************************************)
\* Line 39
lows(opts) == [i \in 1..Len(opts) |-> Lower(opts[i])]

\* str.startswith
StartsWith(op, sel) == Len(sel) <= Len(op) /\ SubSeq(op, 1, Len(sel)) = sel

\* Variant: the abbreviation is looked for before the exact match.
find_selection_PrefixFirst(opts, sel) ==
    LET abbr == { i \in 1..Len(opts) : StartsWith(lows(opts)[i], sel) }
    IN  IF sel = <<>> \/ abbr = {} THEN 0
        ELSE CHOOSE i \in abbr : \A j \in abbr : i <= j

\* Lines 47-60: the index of the option selected, 0 for None.
find_selection(opts, sel) ==
    LET abbr == { i \in 1..Len(opts) : StartsWith(lows(opts)[i], sel) }
    IN  IF sel = <<>> THEN 0
        ELSE IF IndexOf(lows(opts), sel) # 0 THEN IndexOf(lows(opts), sel)
        ELSE IF abbr = {} THEN 0
        ELSE CHOOSE i \in abbr : \A j \in abbr : i <= j

\* Lines 62 and 65: input('> ').lower() or default
Selection(typed, dflt) == IF Lower(typed) = <<>> THEN dflt ELSE Lower(typed)

\* Lines 63 and 69: the option returned for a line typed, <<>> when the
\* line is asked again (no option found, or an option that is empty).
Returned(opts, typed, dflt) ==
    LET index == find_selection(opts, Selection(typed, dflt))
    IN  IF index = 0 THEN <<>> ELSE opts[index]

(***************************************************************************)
(* The configuration wizard (create_config.py, Configure.run): color       *)
(* system, light or dark, flag, brightness.  Every call of recolor_ascii   *)
(* is logged with the arguments it runs with, those the wizard leaves out  *)
(* at the defaults of line 110-112 of neofetch_util.py.                    *)
(***************************************************************************)
\* Code point order of the letters of the file names.
Alphabet ==
    <<"R", "T", "X", "a", "b", "c", "e", "g", "i", "n", "o", "p", "r", "t", "u",
      "w", "x">>
Rank(ch) == CHOOSE k \in 1..Len(Alphabet) : Alphabet[k] = ch

\* s < t for strings.
RECURSIVE StrLess(_, _)
StrLess(s, t) ==
    IF Len(t) = 0 THEN FALSE
    ELSE IF Len(s) = 0 THEN TRUE
    ELSE IF Head(s) # Head(t) THEN Rank(Head(s)) < Rank(Head(t))
    ELSE StrLess(Tail(s), Tail(t))

\* list.sort()
RECURSIVE Sorted(_)
Sorted(list) ==
    IF Len(list) = 0 THEN <<>>
    ELSE LET least == CHOOSE i \in 1..Len(list) :
                          \A j \in 1..Len(list) :
                              ~StrLess(list[j], list[i]) /\ (list[j] = list[i] => i <= j)
         IN  <<list[least]>>
             \o Sorted([k \in 1..(Len(list) - 1) |->
                           IF k < least THEN list[k] ELSE list[k + 1]])

\* get_flags(), flag_utils.py lines 17-20.
get_flags == Sorted(files_no_ext(files))

\* recolor_ascii(asc, flag, lightness=0.5, lightness_mode="set_dl",
\*               foreground=True, rotation=0, term='dark')
DefaultLightnessArg == 50
DefaultMode == "set_dl"
DefaultForeground == TRUE
DefaultRotation == 0

Call(a, f, l, mode, fg, rot, t) ==
    [asc |-> a, flag |-> f, lightness |-> l, lightness_mode |-> mode,
     foreground |-> fg, rotation |-> rot, term |-> t]

\* os.listdir('hyfetch/flags') for the wizard: the rainbow flag with
\* others, and a directory without it.
WizardListings ==
    { << <<"r", "a", "i", "n", "b", "o", "w", ".", "p", "n", "g">>,
         <<"t", ".", "p", "n", "g">> >>,
      << <<"t", ".", "p", "n", "g">>,
         <<"r", "a", "i", "n", "b", "o", "w", ".", "p", "n", "g">>,
         <<"n", "e", "u", ".", "p", "n", "g">> >>,
      << <<"t", ".", "p", "n", "g">> >> }

MaxFlagPrompts == 3

WizardInit ==
    /\ asc = <<>>
    /\ NoText
    /\ pc = "color_system"
    /\ NoCall
    /\ NoLocals
    /\ files \in WizardListings
    /\ fn = ""
    /\ found = 0
    /\ NoRun
    /\ NoAgain
    /\ NoWizard
    /\ NoInput

\* Lines 46-69 and 216-219: the color system, detected or asked for.
SelectColorSystem ==
    /\ pc = "color_system"
    /\ \E detected \in BOOLEAN :
         \E choice \in ColorModes :
             color_mode' = IF detected THEN "rgb" ELSE choice
    /\ pc' = "light_dark"
    /\ UNCHANGED <<text_vars, flag, lightness, lightness_mode, foreground,
                   rotation, term, local_vars, env_vars>>

\* Lines 71-78 and 224-226: light or dark, detected or asked for.
SelectLightDark ==
    /\ UNCHANGED input_vars
    /\ pc = "light_dark"
    /\ \E light \in BOOLEAN : is_light' = light
    /\ pc' = "choose_flag"
    /\ UNCHANGED <<text_vars, arg_vars, local_vars, lookup_vars,
                   args, cfg_lightness, entry, prompts, handed,
                   again_vars, wizard_vars>>

\* The words of choose_flag.
Rainbow == <<"r", "a", "i", "n", "b", "o", "w">>
NextWord == <<"n", "e", "x", "t">>
PrevWord == <<"p", "r", "e", "v">>

\* Lines 175-179: the options on page pg of n.
FlagOptions(pg, n) ==
    get_flags
    \o (IF pg < n - 1 THEN <<NextWord>> ELSE <<>>)
    \o (IF pg > 0 THEN <<PrevWord>> ELSE <<>>)

\* Variant: next is offered on every page.
PageTop_NextAlways(pg, n, log) ==
    /\ pc' = "flag_input"
    /\ raised' = ""
    /\ calls' = Append(log, Call(<<"preset">>, Rainbow, DefaultLightnessArg,
                                 DefaultMode, DefaultForeground, 90, DefaultTerm))
    /\ options' = get_flags \o <<NextWord>> \o (IF pg > 0 THEN <<PrevWord>> ELSE <<>>)
    /\ default' = Rainbow

\* Lines 170-183, up to the prompt: page pg of n is printed (pages[pg], an
\* IndexError outside the list), the word 'preset' is drawn in the rainbow
\* flag (FileNotFoundError when it is not installed) and literal_input is
\* called with the options of the page.
PageTop(pg, n, log) ==
    IF ~(0 - n <= pg /\ pg < n)
    THEN /\ pc' = "error"
         /\ raised' = "IndexError"
         /\ calls' = log
         /\ UNCHANGED <<options, default>>
    ELSE IF IndexOf(files_no_ext(files), Lower(Rainbow)) = 0
    THEN /\ pc' = "error"
         /\ raised' = "FileNotFoundError"
         /\ calls' = log
         /\ UNCHANGED <<options, default>>
    ELSE /\ pc' = "flag_input"
         /\ raised' = ""
         /\ calls' = Append(log, Call(<<"preset">>, Rainbow, DefaultLightnessArg,
                                      DefaultMode, DefaultForeground, 90,
                                      DefaultTerm))
         /\ options' = FlagOptions(pg, n)
         /\ default' = Rainbow

\* choose_flag, lines 144-183: every installed flag is drawn, rotated and
\* in its own colors, the drawings are laid out in pages, and the first
\* page is shown.
ChooseFlagList ==
    /\ pc = "choose_flag"
    /\ \E n \in 1..Len(get_flags) :
         /\ num_pages' = n
         /\ PageTop(0, n,
                    calls \o [k \in 1..Len(get_flags) |->
                                 Call(<<"flag_lines">>, get_flags[k],
                                      DefaultLightnessArg, "None", FALSE, 270,
                                      DefaultTerm)])
    /\ page' = 0
    /\ prompts' = 0
    /\ UNCHANGED <<text_vars, arg_vars, norm, pos, x_len, y_len, x, y, at_least,
                   at_most, current_color, new_asc, samples, lookup_vars,
                   args, is_light, cfg_lightness, entry, handed,
                   again_vars, preset, selected>>

\* What the user may type at the flag prompt.
FlagInputs ==
    { <<>>, NextWord, PrevWord, <<"n">>, <<"n", "e">>, <<"p">>, <<"T">>,
      <<"r">>, <<"x">>, <<"n", "e", "x", "t", "t">> }

\* choose_flag, lines 182-191 and on to the next prompt: one line typed.
\* literal_input asks again for a line that selects nothing; next and prev
\* turn the page, which is then shown; any other option is the flag chosen,
\* drawn in the title.
ChooseFlagInput ==
    /\ pc = "flag_input"
    /\ prompts < MaxFlagPrompts
    /\ \E typed \in FlagInputs :
         LET r == Returned(options, typed, default)
         IN  /\ entry' = typed
             /\ selected' = r
             /\ IF r = <<>>
                THEN /\ prompts' = prompts + 1
                     /\ UNCHANGED <<pc, raised, calls, options, default, page, preset>>
                ELSE IF r = NextWord
                THEN /\ page' = page + 1
                     /\ PageTop(page + 1, num_pages, calls)
                     /\ prompts' = prompts + 1
                     /\ UNCHANGED preset
                ELSE IF r = PrevWord
                THEN /\ page' = page - 1
                     /\ PageTop(page - 1, num_pages, calls)
                     /\ prompts' = prompts + 1
                     /\ UNCHANGED preset
                ELSE /\ preset' = r
                     /\ calls' = Append(calls,
                                    Call(r, r, DefaultLightnessArg, DefaultMode,
                                         DefaultForeground, 270, DefaultTerm))
                     /\ prompts' = 0
                     /\ pc' = "select_lightness"
                     /\ UNCHANGED <<raised, options, default, page>>
    /\ UNCHANGED <<text_vars, arg_vars, norm, pos, x_len, y_len, x, y, at_least,
                   at_most, current_color, new_asc, samples, lookup_vars,
                   args, is_light, cfg_lightness, handed, again_vars, num_pages>>

\* select_lightness, lines 104-108: the brightness levels previewed, for
\* two columns.
PreviewRatios == IF is_light THEN <<15, 32>> ELSE <<50, 67>>

\* select_lightness, lines 96-114: the previews.
ShowLightnessPreviews ==
    /\ UNCHANGED input_vars
    /\ pc = "select_lightness"
    /\ calls' = calls \o
                  [k \in 1..Len(PreviewRatios) |->
                      Call(<<"TEST_ASCII">>, preset, PreviewRatios[k], DefaultMode,
                           DefaultForeground, DefaultRotation, DefaultTerm)]
    /\ pc' = "lightness_prompt"
    /\ UNCHANGED <<text_vars, arg_vars, local_vars, lookup_vars, run_vars,
                   again_vars, preset, page, num_pages>>

\* GLOBAL_CFG.default_lightness(light_dark)
def_lightness == IF is_light THEN 40 ELSE 65

\* select_lightness, lines 118-141: one line typed at the prompt.
SelectLightnessPrompt ==
    /\ UNCHANGED input_vars
    /\ pc = "lightness_prompt"
    /\ prompts < MaxPrompts
    /\ \E typed \in Entries :
         LET text == Lower(Strip(typed))
             p == ParseLightness(text)
         IN  /\ entry' = typed
             /\ IF text = <<>> \/ text \in { <<"u", "n", "s", "e", "t">>,
                                             <<"n", "o", "n", "e">> }
                THEN cfg_lightness' = <<def_lightness>> /\ pc' = "configured"
                ELSE IF p.ok /\ InRange(p)
                THEN cfg_lightness' = <<p.v>> /\ pc' = "configured"
                ELSE UNCHANGED <<cfg_lightness, pc>>
    /\ prompts' = prompts + 1
    /\ UNCHANGED <<text_vars, arg_vars, local_vars, lookup_vars,
                   args, is_light, handed, again_vars, wizard_vars>>

WizardNext ==
    \/ SelectColorSystem
    \/ SelectLightDark
    \/ ChooseFlagList
    \/ ChooseFlagInput
    \/ ShowLightnessPreviews
    \/ SelectLightnessPrompt

SpecWizard == WizardInit /\ [][WizardNext]_vars

(***************************************************************************)
(* C20.  As claimed: every set_dl call of recolor_ascii that the wizard    *)
(* makes (the previews of select_lightness, the flag title of choose_flag) *)
(* runs with the bound of the background chosen in the light/dark step,    *)
(* the ceiling when it is light and the floor when it is dark.  The wizard *)
(* never passes term, so every call runs as for a dark terminal.           *)
(***************************************************************************)
C20_BoundMatchesBackground ==
    \A k \in 1..Len(calls) :
        calls[k].lightness_mode = "set_dl" =>
            /\ Bounds(calls[k].lightness_mode, calls[k].term).at_most = is_light
            /\ Bounds(calls[k].lightness_mode, calls[k].term).at_least = ~is_light

(***************************************************************************)
(* C21.  The pages of choose_flag.                                         *)
(***************************************************************************)
Offered(word) == \E i \in 1..Len(options) : options[i] = word
NavWords == {NextWord, PrevWord}
FlagSet == { get_flags[k] : k \in 1..Len(get_flags) }
PrefixOfFlag(sel) == \E f \in FlagSet : StartsWith(Lower(f), sel)
PrefixOfOfferedNav(sel) ==
    \E w \in NavWords : Offered(w) /\ StartsWith(w, sel)

\* A page is on the screen and the prompt waits for a line.
PagePrinted == pc = "flag_input"

\* After a step: the page shown is a page of the list, and next and prev
\* are offered exactly where there is a page to go to; a flag chosen is an
\* installed flag, never a navigation word.  (The directory is listed
\* anew at every use and is the same throughout.)
PageState ==
    /\ raised' # "IndexError"
    /\ PagePrinted' =>
         /\ 0 <= page' /\ page' < num_pages'
         /\ Offered(NextWord)' <=> page' < num_pages' - 1
         /\ Offered(PrevWord)' <=> page' > 0
    /\ pc' \in {"select_lightness", "lightness_prompt", "configured"} =>
         preset' \in FlagSet \ NavWords

\* One line typed at the flag prompt: next is accepted only before the last
\* page, prev only after the first, the loop ends only with a flag.
PageStep ==
    /\ page' = page + 1 => page < num_pages - 1 /\ Offered(NextWord)
    /\ page' = page - 1 => page > 0 /\ Offered(PrevWord)
    /\ page' \in {page - 1, page, page + 1}
    /\ pc' # "flag_input" => pc' = "select_lightness" /\ page' = page
    /\ PageState

Untouched == page' = page /\ pc' = pc /\ preset' = preset /\ options' = options

\* C21, as claimed: whatever is typed in choose_flag, a page printed has
\* 0 <= page < num_pages, next is accepted only while page < num_pages - 1
\* and prev only while page > 0, the loop ends only with the name of an
\* installed flag, and a line that is neither an offered navigation word
\* nor a prefix of a flag name changes nothing.
C21_UnrelatedInputIgnored ==
    [][ (pc = "choose_flag" => PageState)
        /\ (PagePrinted =>
              /\ PageStep
              /\ (~(Lower(entry') \in NavWords /\ Offered(Lower(entry')))
                  /\ ~PrefixOfFlag(Lower(entry'))) => Untouched) ]_vars

\* C21, amended: as above, for a line that is neither a prefix of an
\* offered navigation word nor a prefix of a flag name; the abbreviation
\* of an offered navigation word turns the page.
C21_PageInRange ==
    [][ (pc = "choose_flag" => PageState)
        /\ (PagePrinted =>
              /\ PageStep
              /\ (~PrefixOfOfferedNav(Lower(entry'))
                  /\ ~PrefixOfFlag(Lower(entry'))) => Untouched) ]_vars

\* next was typed on the last page of several and was refused.
C21_Witness ==
    /\ PagePrinted
    /\ page > 0 /\ page = num_pages - 1
    /\ entry = NextWord
    /\ selected = <<>>

(***************************************************************************)
(* literal_input on its own (neofetch_util.py lines 28-69, main.py lines   *)
(* 39-80): the prompt loop, one line typed at a step.                      *)
(***************************************************************************)
\* The options and the default of the calls in the program: the color
\* system, light or dark, save, the git package, the color arrangement and
\* pages of choose_flag.
CallerCalls ==
    { <<<<<<"8", "b", "i", "t">>, <<"r", "g", "b">>>>,
         <<"r", "g", "b">>>>,
      <<<<<<"l", "i", "g", "h", "t">>, <<"d", "a", "r", "k">>>>,
         <<"d", "a", "r", "k">>>>,
      <<<<<<"y">>, <<"n">>>>,
         <<"y">>>>,
      <<<<<<"y", "e", "s">>, <<"n", "o">>>>,
         <<"y", "e", "s">>>>,
      <<<<<<"h", "o", "r", "i", "z", "o", "n", "t", "a", "l">>, <<"v", "e", "r", "t", "i", "c", "a", "l">>, <<"r", "o", "l", "l">>, <<"r", "a", "n", "d", "o", "m", "0">>, <<"r", "a", "n", "d", "o", "m", "1">>>>,
         <<"h", "o", "r", "i", "z", "o", "n", "t", "a", "l">>>>,
      <<<<<<"r", "a", "i", "n", "b", "o", "w">>, <<"t">>, <<"n", "e", "x", "t">>>>,
         <<"r", "a", "i", "n", "b", "o", "w">>>>,
      <<<<<<"n", "e", "u">>, <<"r", "a", "i", "n", "b", "o", "w">>, <<"t">>, <<"n", "e", "x", "t">>, <<"p", "r", "e", "v">>>>,
         <<"r", "a", "i", "n", "b", "o", "w">>>>,
      <<<<<<"n", "e", "u">>, <<"r", "a", "i", "n", "b", "o", "w">>, <<"t">>, <<"p", "r", "e", "v">>>>,
         <<"r", "a", "i", "n", "b", "o", "w">>>> }

\* Options in either case, some a prefix of others, in every order.
OptionWords == { <<"t">>, <<"t", "x">>, <<"T", "x">>, <<"x">> }
MaxOptions == 3
OptionLists ==
    { list \in UNION { [1..k -> OptionWords] : k \in 1..MaxOptions } :
        \A i, j \in 1..Len(list) : list[i] = list[j] => i = j }

\* Calls with any of the options as the default.
InputCalls ==
    CallerCalls
    \cup UNION { { <<list, list[i]>> : i \in 1..Len(list) } : list \in OptionLists }

\* input('> ')
TypedLines ==
    { <<>>, <<"t">>, <<"T">>, <<"t", "x">>,
      <<"T", "X">>, <<"x">>, <<"x", "t">>, <<"r">>,
      <<"r", "a">>, <<"R">>, <<"n">>, <<"n", "o">>,
      <<"n", "e">>, <<"y">>, <<"d">>, <<"r", "a", "n", "d", "o", "m", "1">>,
      <<"n", "e", "x", "t", "t">>, <<"z">> }

MaxTyped == 3

InputInit ==
    /\ asc = <<>>
    /\ NoText
    /\ pc = "input"
    /\ NoCall
    /\ NoLocals
    /\ NoLookup
    /\ NoRun
    /\ NoAgain
    /\ NoWizard
    /\ selected = <<>>
    /\ \E call \in InputCalls : options = call[1] /\ default = call[2]

\* Lines 62-69: one line typed; the loop is left with the option found.
TypeLine ==
    /\ pc = "input"
    /\ prompts < MaxTyped
    /\ \E typed \in TypedLines :
         /\ entry' = typed
         /\ selected' = Returned(options, typed, default)
    /\ prompts' = prompts + 1
    /\ pc' = IF selected' = <<>> THEN "input" ELSE "returned"
    /\ UNCHANGED <<text_vars, arg_vars, local_vars, lookup_vars,
                   args, is_light, cfg_lightness, handed,
                   again_vars, wizard_vars, options, default>>

InputNext == TypeLine

SpecInput == InputInit /\ [][InputNext]_vars


(***************************************************************************)
(* C22.  What literal_input returns, and when.                             *)
(***************************************************************************)
\* The selection of the last line typed: the line in lower case, the
\* default for an empty line.
Chosen == IF Lower(entry) = <<>> THEN default ELSE Lower(entry)

\* The positions of the options that equal the selection in lower case,
\* and of those that start with it.
ExactAt == { i \in 1..Len(options) : Lower(options[i]) = Chosen }
PrefixAt ==
    { i \in 1..Len(options) :
        /\ Len(Chosen) <= Len(options[i])
        /\ \A k \in 1..Len(Chosen) : Lower(options[i])[k] = Chosen[k] }
Least(S) == CHOOSE i \in S : \A j \in S : i <= j
Matching == Chosen # <<>> /\ PrefixAt # {}

\* C22: literal_input returns only one of the options: the (first) option
\* that equals the line typed in lower case, even when an earlier option
\* starts with the line, otherwise the first option that starts with it;
\* an empty line selects the default; a line matching no option is asked
\* again and the first matching line ends the loop; an empty line ends it
\* for every default the callers pass, with the default returned.
C22_ReturnsFirstMatch ==
    /\ pc = "returned" =>
         /\ \E i \in 1..Len(options) : selected = options[i]
         /\ Matching
         /\ ExactAt # {} => selected = options[Least(ExactAt)]
         /\ ExactAt = {} => selected = options[Least(PrefixAt)]
    /\ (pc = "input" /\ prompts > 0) => ~Matching /\ selected = <<>>
    /\ (prompts > 0 /\ entry = <<>>) =>
         /\ Chosen = default
         /\ <<options, default>> \in CallerCalls =>
              pc = "returned" /\ selected = default

\* A line typed equals a later option in lower case while an earlier
\* option starts with it, after a line that matched nothing.
C22_Witness ==
    /\ pc = "returned"
    /\ prompts > 1
    /\ ExactAt # {}
    /\ Least(PrefixAt) < Least(ExactAt)

====
